---- MODULE Spec2Model ----
(***************************************************************************)
(* State-machine model of src/index.tsx: the chat page that generates an   *)
(* NPC profile on the first submission (generateNpcAndStartChat), starts   *)
(* an un-awaited portrait request (generateNpcImage) and streams every     *)
(* later reply character by character (handleChatSubmit).                  *)
(*                                                                         *)
(* JavaScript runs each handler to its next await without interruption,    *)
(* so one action is one synchronous segment: from an event or a resumed    *)
(* await up to the next await or the end of the function.  Every           *)
(* invocation of handleChatSubmit that got past its guards is a record in  *)
(* the set flows, with its own position and its own local variables.       *)
(***************************************************************************)
EXTENDS Integers, Sequences, FiniteSets, TLC

\* ------------------------------------------------------------------ bounds
\* submissions that pass the guards of handleChatSubmit
MaxSubmits == 2
\* chunks one reply stream produces
MaxChunks == 3
\* longest userInput whose thinking time is computed
MaxInputLen == 90

\* ------------------------------------------------- inputs of the environment
\* Raw values of chatInput.value at a submit event.
UserInputs == { <<>>, <<" ">>, <<" ", "h", " ">> }

\* Values of the first_message field of a parsed profile: absent, empty, text.
FirstMessages ==
    { [defined |-> FALSE, chars |-> <<>>],
      [defined |-> TRUE,  chars |-> <<>>],
      [defined |-> TRUE,  chars |-> <<"a", "b", "c">>] }

\* Outcomes of ai.models.generateContent followed by JSON.parse(response.text).
ProfileResponses ==
    { [kind |-> k, first_message |-> [defined |-> FALSE, chars |-> <<>>]] :
          k \in {"reject", "unparsable", "null"} }
    \cup { [kind |-> "object", first_message |-> fm] : fm \in FirstMessages }

\* The characters the model's reply stream has to deliver; the stream cuts
\* them into chunks wherever it likes and may end or fail at any point.
ReplyText == << "a", "b", "c" >>

\* Results of one step of `for await (const chunk of stream)`: a chunk whose
\* text is the next len characters of the reply, the end, or an exception.
StreamResults ==
    { [kind |-> "chunk", len |-> n] : n \in 0 .. Len(ReplyText) }
    \cup { [kind |-> k, len |-> 0] : k \in {"done", "throw"} }

\* Outcomes of ai.models.generateImages and of reading its payload.
ImageResults == { "image", "reject", "nopayload" }

\* ------------------------------------------------------------- fixed texts
StatusText == << "status" >>
ContactFailText == << "contact_failed" >>
ChatFailText == << "chat_failed" >>

\* ------------------------------------------------------------------- state
VARIABLES
    chatHistory,        \* children of #chat-history, in document order
    nextId,             \* identity of the next element createElement returns
    isFirstMessage,     \* line 17
    chat,               \* line 18: 0 is null, n > 0 the n-th session created
    npcProfile,         \* line 19: <<>> is null, <<p>> the parsed profile p
    isGenerating,       \* line 20
    inputDisabled,      \* chatInput.disabled and the button's disabled
    inputPlaceholder,   \* chatInput.placeholder
    signalOn,           \* signalContainer holds the vine strands
    placeholderHidden,  \* portraitPlaceholder has class hidden
    loaderHidden,       \* portraitLoader has class hidden
    imageHidden,        \* npcImage has class hidden
    portraitCaption,    \* text of the placeholder's caption
    pendingImages,      \* generateNpcImage invocations awaiting generateImages
    flows,              \* handleChatSubmit invocations suspended at an await
    requests,           \* number of calls issued to each collaborator
    history,            \* record of what the handlers did, for the properties
    probe               \* one call of a delay function: arguments and result

textVars == << chatHistory, nextId, isFirstMessage, chat, npcProfile,
               isGenerating, inputDisabled, inputPlaceholder, signalOn >>
portraitVars == << placeholderHidden, loaderHidden, imageHidden,
                   portraitCaption, pendingImages >>
vars == << chatHistory, nextId, isFirstMessage, chat, npcProfile,
           isGenerating, inputDisabled, inputPlaceholder, signalOn,
           placeholderHidden, loaderHidden, imageHidden, portraitCaption,
           pendingImages, flows, requests, history, probe >>

\* ------------------------------------------------------------ pure helpers
RECURSIVE TrimStart(_)
TrimStart(s) ==
    IF s # <<>> /\ Head(s) = " " THEN TrimStart(Tail(s)) ELSE s

RECURSIVE TrimEnd(_)
TrimEnd(s) ==
    IF s # <<>> /\ s[Len(s)] = " " THEN TrimEnd(SubSeq(s, 1, Len(s) - 1)) ELSE s

\* String.prototype.trim
Trim(s) == TrimEnd(TrimStart(s))

RECURSIVE Concat(_)
\* Concatenation of a sequence of strings.
Concat(ss) == IF ss = <<>> THEN <<>> ELSE Head(ss) \o Concat(Tail(ss))

CursorNode == [tag |-> "cursor", data |-> <<>>]
TextNode(s) == [tag |-> "text", data |-> s]

\* textContent of the <p> of a message: the data of its text nodes in order.
RECURSIVE TextOf(_)
TextOf(nodes) ==
    IF nodes = <<>> THEN <<>> ELSE Head(nodes).data \o TextOf(Tail(nodes))

HasCursor(m) == \E i \in DOMAIN m.nodes : m.nodes[i].tag = "cursor"

\* ---------------------------------------------------------------- the DOM
AddMessageAtFront(hist, id, text, sender, isStreaming) ==
    << [id |-> id, sender |-> sender, streaming |-> isStreaming,
        firstReply |-> FALSE,
        nodes |-> (IF text = <<>> THEN <<>> ELSE << TextNode(text) >>)
                  \o (IF isStreaming THEN << CursorNode >> ELSE <<>>)] >> \o hist

\* addMessageToUI: a new element with one text node (none for ''), a cursor
\* span after it when streaming, appended at the end of chatHistory.
AddMessageToUI(hist, id, text, sender, isStreaming) ==
    Append(hist,
           [id |-> id, sender |-> sender, streaming |-> isStreaming,
            firstReply |-> FALSE,
            nodes |-> (IF text = <<>> THEN <<>> ELSE << TextNode(text) >>)
                      \o (IF isStreaming THEN << CursorNode >> ELSE <<>>)])

\* element.parentNode is not null
HasParent(hist, id) == \E i \in DOMAIN hist : hist[i].id = id

\* chatHistory.removeChild(element)
RemoveChild(hist, id) == SelectSeq(hist, LAMBDA m : m.id # id)

InsertAtFront(nodes, ch) == << TextNode(<< ch >>) >> \o nodes

\* paragraph.insertBefore(document.createTextNode(char), cursor)
InsertBeforeCursor(nodes, ch) ==
    LET k == CHOOSE i \in DOMAIN nodes : nodes[i].tag = "cursor"
    IN  SubSeq(nodes, 1, k - 1) \o << TextNode(<< ch >>) >>
            \o SubSeq(nodes, k, Len(nodes))

TypeCharTwice(hist, id, ch) ==
    [i \in DOMAIN hist |->
        IF hist[i].id = id
        THEN [hist[i] EXCEPT
                 !.nodes = InsertBeforeCursor(InsertBeforeCursor(@, ch), ch)]
        ELSE hist[i]]

\* The insertion applied to the element a flow holds a reference to.
TypeChar(hist, id, ch) ==
    [i \in DOMAIN hist |->
        IF hist[i].id = id
        THEN [hist[i] EXCEPT !.nodes = InsertBeforeCursor(@, ch)]
        ELSE hist[i]]

\* element.classList.remove('streaming'); cursor.remove()
FinishStreaming(hist, id) ==
    [i \in DOMAIN hist |->
        IF hist[i].id = id
        THEN [hist[i] EXCEPT !.streaming = FALSE,
                             !.nodes = SelectSeq(@, LAMBDA n : n.tag # "cursor")]
        ELSE hist[i]]

\* line 196: firstMessageElement.classList.add('first-npc-reply')
MarkFirstReply(hist, id) ==
    [i \in DOMAIN hist |->
        IF hist[i].id = id THEN [hist[i] EXCEPT !.firstReply = TRUE] ELSE hist[i]]

\* The placeholder text setLoading chooses.
LoadingPlaceholder(isLoading, first) ==
    IF isLoading
    THEN (IF first THEN "connecting" ELSE "listening")
    ELSE (IF first THEN "say_something" ELSE "continue")

\* setLoading(isLoading), called when isFirstMessage has the value first.
SetLoading(isLoading, first) ==
    /\ isGenerating' = isLoading
    /\ inputDisabled' = isLoading
    /\ inputPlaceholder' = LoadingPlaceholder(isLoading, first)

\* --------------------------------------------------------- the delay model
\* Times are integers in tenths of a millisecond.
Ms(n) == n * 10

\* The values of Math.random(): draw k stands for k/50.
Draws == 0 .. 49

\* Math.random() * factor for the draw k, in tenths of a millisecond.
RandomTimes(k, factor) == (factor * 10 * k) \div 50

MinOf(a, b) == IF a <= b THEN a ELSE b
MaxOf(a, b) == IF a >= b THEN a ELSE b

GetThinkingTimeUncapped(len, k) ==
    Ms(600) + len * Ms(40) + RandomTimes(k, 500)

\* getThinkingTime(userInput) for userInput.length = len and the draw k
GetThinkingTime(len, k) ==
    LET baseTime == Ms(600)
        timePerChar == Ms(40)
        randomFactor == RandomTimes(k, 500)
        calculatedTime == baseTime + len * timePerChar + randomFactor
    IN  MinOf(calculatedTime, Ms(4000))

GetTypingDelayNoCommaPause(char, k1, k2) ==
    IF char \in {".", "?", "!"} THEN Ms(500) + RandomTimes(k1, 200)
    ELSE IF k2 * 100 < 4 * 50 THEN Ms(95) + RandomTimes(k1, 60) - Ms(30) + Ms(300)
    ELSE MaxOf(Ms(50), Ms(95) + RandomTimes(k1, 60) - Ms(30))

\* getTypingDelay(char); k1 and k2 are its first and second draw
GetTypingDelay(char, k1, k2) ==
    IF char = "," THEN Ms(350) + RandomTimes(k1, 150)
    ELSE IF char \in {".", "?", "!"} THEN Ms(500) + RandomTimes(k1, 200)
    ELSE LET baseSpeed == Ms(95)
             jitter == RandomTimes(k1, 60) - Ms(30)
         IN  IF k2 * 100 < 4 * 50
             THEN baseSpeed + jitter + Ms(300)
             ELSE MaxOf(Ms(50), baseSpeed + jitter)

\* Characters whose typing delay is computed.
DelayChars == { ",", ".", "?", "!", "a", " " }

NoProbe ==
    [fn |-> "none", len |-> 0, char |-> "", draw1 |-> 0, draw2 |-> 0,
     done |-> FALSE, result |-> 0]

\* The calls of the two delay functions that are examined.
DelayInputs ==
    { [fn |-> "getThinkingTime", len |-> n, char |-> "", draw1 |-> k,
       draw2 |-> 0, done |-> FALSE, result |-> 0] :
          n \in 0 .. MaxInputLen, k \in Draws }
    \cup
    { [fn |-> "getTypingDelay", len |-> 0, char |-> c, draw1 |-> k1,
       draw2 |-> k2, done |-> FALSE, result |-> 0] :
          c \in DelayChars, k1 \in Draws, k2 \in Draws }

\* ------------------------------------------------------------------- Init
\* The module-level state of lines 17-20 and the page as loaded.
SessionInit ==
    /\ chatHistory = <<>>
    /\ nextId = 1
    /\ isFirstMessage = TRUE
    /\ chat = 0
    /\ npcProfile = <<>>
    /\ isGenerating = FALSE
    /\ inputDisabled = FALSE
    /\ inputPlaceholder = "say_something"
    /\ signalOn = FALSE
    /\ placeholderHidden = FALSE
    /\ loaderHidden = TRUE
    /\ imageHidden = TRUE
    /\ portraitCaption = "initial"
    /\ pendingImages = 0
    /\ flows = {}
    /\ requests = [generateContent |-> 0, chatsCreate |-> 0,
                   sendMessageStream |-> 0, generateImages |-> 0]
    /\ history = [accepted |-> 0, lastSubmit |-> "none",
                  acceptedDialogue |-> 0, sessions |-> 0,
                  failedFlows |-> 0, outcome |-> "none",
                  rendered |-> [id |-> 0, fragments |-> <<>>]]

Init == SessionInit /\ probe = NoProbe

\* ------------------------------------------------- handleChatSubmit, entry
NoBusyGuard(busy) == FALSE

\* line 264: if (isGenerating) return;
SubmitIgnored(busy) == busy

AlwaysContact(first) == TRUE

\* line 272: if (isFirstMessage) ... else if (chat) ...
RouteToContact(first) == first

TurnSkipsThinking == "send_wait"

\* lines 283-284: the first await of a chat turn is the thinking delay
TurnFirstAwait == "thinking"

NewFlow(kind, pc, userInput, statusMessage) ==
    [kind |-> kind, pc |-> pc, userInput |-> userInput,
     statusMessage |-> statusMessage, element |-> 0,
     remaining |-> <<>>, produced |-> <<>>, stream |-> <<>>]

\* A submit event with chatInput.value = raw: lines 262-280 and, on the
\* first-contact branch, lines 118-137 up to the await of generateContent.
HandleChatSubmit(raw) ==
    LET userInput == Trim(raw)
        h1 == AddMessageToUI(chatHistory, nextId, userInput, "user", FALSE)
        ignored == SubmitIgnored(isGenerating) \/ userInput = <<>>
        hev == IF ignored THEN history
                          ELSE [history EXCEPT !.accepted = @ + 1]
    IN
    /\ ~ignored => history.accepted < MaxSubmits
    /\ UNCHANGED << isFirstMessage, chat, npcProfile, portraitVars, probe >>
    /\ IF SubmitIgnored(isGenerating)
       THEN /\ history' = [hev EXCEPT !.lastSubmit = "busy"]
            /\ UNCHANGED << chatHistory, nextId, isGenerating, inputDisabled,
                            inputPlaceholder, signalOn, flows, requests >>
       ELSE IF userInput = <<>>
       THEN /\ history' = [hev EXCEPT !.lastSubmit = "empty"]
            /\ UNCHANGED << chatHistory, nextId, isGenerating, inputDisabled,
                            inputPlaceholder, signalOn, flows, requests >>
       ELSE IF RouteToContact(isFirstMessage)
       THEN /\ signalOn' = TRUE
            /\ SetLoading(TRUE, isFirstMessage)
            /\ chatHistory' =
                   AddMessageToUI(h1, nextId + 1, StatusText, "npc", FALSE)
            /\ nextId' = nextId + 2
            /\ requests' = [requests EXCEPT !.generateContent = @ + 1]
            /\ flows' = flows \cup
                   { NewFlow("contact", "profile_wait", userInput, nextId + 1) }
            /\ history' = [hev EXCEPT !.lastSubmit = "contact",
                                      !.outcome = "none"]
       ELSE IF chat # 0
       THEN /\ SetLoading(TRUE, isFirstMessage)
            /\ chatHistory' = h1
            /\ nextId' = nextId + 1
            /\ flows' = flows \cup { NewFlow("turn", TurnFirstAwait, userInput, 0) }
            /\ history' = [hev EXCEPT !.lastSubmit = "dialogue",
                                      !.acceptedDialogue = @ + 1,
                                      !.outcome = "none"]
            /\ UNCHANGED << signalOn, requests >>
       ELSE /\ chatHistory' = h1
            /\ nextId' = nextId + 1
            /\ history' = [hev EXCEPT !.lastSubmit = "dropped"]
            /\ UNCHANGED << isGenerating, inputDisabled, inputPlaceholder,
                            signalOn, flows, requests >>

\* ------------------------------------------------- generateNpcAndStartChat
FirstMessageAlwaysCleared(reached, cur) == FALSE

\* line 193, reached only when lines 137-191 did not throw
FirstMessageAfterContact(reached, cur) == IF reached THEN FALSE ELSE cur

ContactCatchKeepsStatus(hist, statusId, id) ==
    AddMessageToUI(hist, id, ContactFailText, "npc", FALSE)

\* lines 210-216: the catch block
ContactCatch(hist, statusId, id) ==
    AddMessageToUI(
        IF HasParent(hist, statusId) THEN RemoveChild(hist, statusId) ELSE hist,
        id, ContactFailText, "npc", FALSE)

ContactFinallyStaysBusy == TRUE

\* line 218: the argument of setLoading in the finally block
ContactFinallyLoading == FALSE

\* generateContent settled with resp: lines 157-205 up to the first typing
\* delay, or through the catch and finally blocks when a statement throws.
\* createThrows is the outcome of ai.chats.create when line 188 is reached.
ProfileResolve(f, resp, createThrows) ==
    LET parsed  == resp.kind \in {"null", "object"}
        isObj   == resp.kind = "object"
        created == isObj /\ ~createThrows
        fm      == resp.first_message
        throws  == ~created \/ ~fm.defined
        typing  == created /\ fm.defined /\ fm.chars # <<>>
        h1      == IF parsed THEN RemoveChild(chatHistory, f.statusMessage)
                             ELSE chatHistory
        h2      == IF created
                   THEN MarkFirstReply(
                            AddMessageToUI(h1, nextId, <<>>, "npc", TRUE), nextId)
                   ELSE h1
        id2     == IF created THEN nextId + 1 ELSE nextId
        first2  == FirstMessageAfterContact(created, isFirstMessage)
    IN
    /\ f \in flows /\ f.pc = "profile_wait"
    /\ UNCHANGED probe
    /\ resp.kind \in {"reject", "unparsable", "null"} => createThrows = FALSE
    /\ signalOn' = FALSE
    /\ npcProfile' =
           IF resp.kind = "null" THEN <<>>
           ELSE IF isObj
           THEN << [id |-> requests.generateContent, first_message |-> fm] >>
           ELSE npcProfile
    /\ IF isObj
       THEN /\ placeholderHidden' = TRUE
            /\ loaderHidden' = FALSE
            /\ imageHidden' = TRUE
            /\ pendingImages' = pendingImages + 1
            /\ UNCHANGED portraitCaption
       ELSE UNCHANGED portraitVars
    /\ requests' = [requests EXCEPT
                       !.generateImages = IF isObj THEN @ + 1 ELSE @,
                       !.chatsCreate = IF isObj THEN @ + 1 ELSE @]
    /\ chat' = IF created THEN requests.chatsCreate + 1 ELSE chat
    /\ isFirstMessage' = first2
    /\ IF throws
       THEN /\ chatHistory' = ContactCatch(h2, f.statusMessage, id2)
            /\ nextId' = id2 + 1
            /\ SetLoading(ContactFinallyLoading, first2)
            /\ flows' = flows \ {f}
            /\ history' = [history EXCEPT
                              !.sessions = IF created THEN @ + 1 ELSE @,
                              !.failedFlows = @ + 1,
                              !.outcome = "contact_failed"]
       ELSE IF typing
       THEN /\ chatHistory' = TypeChar(h2, nextId, Head(fm.chars))
            /\ nextId' = id2
            /\ flows' = (flows \ {f}) \cup
                   { [f EXCEPT !.pc = "first_typing", !.element = nextId,
                               !.remaining = Tail(fm.chars),
                               !.produced = << fm.chars >>] }
            /\ history' = [history EXCEPT !.sessions = @ + 1]
            /\ UNCHANGED << isGenerating, inputDisabled, inputPlaceholder >>
       ELSE /\ chatHistory' = FinishStreaming(h2, nextId)
            /\ nextId' = id2
            /\ SetLoading(ContactFinallyLoading, first2)
            /\ flows' = flows \ {f}
            /\ history' = [history EXCEPT
                              !.sessions = @ + 1,
                              !.outcome = "contact_ok",
                              !.rendered =
                                  [id |-> nextId, fragments |-> << fm.chars >>]]

\* The typing delay of line 204 elapsed: the next character of first_message,
\* or lines 207-208 and the finally block when there is none.
FirstTypingTimer(f) ==
    /\ f \in flows /\ f.pc = "first_typing"
    /\ UNCHANGED probe
    /\ UNCHANGED << nextId, isFirstMessage, chat, npcProfile, signalOn,
                    portraitVars, requests >>
    /\ IF f.remaining # <<>>
       THEN /\ chatHistory' = TypeChar(chatHistory, f.element, Head(f.remaining))
            /\ flows' = (flows \ {f}) \cup
                   { [f EXCEPT !.remaining = Tail(f.remaining)] }
            /\ UNCHANGED << isGenerating, inputDisabled, inputPlaceholder,
                            history >>
       ELSE /\ chatHistory' = FinishStreaming(chatHistory, f.element)
            /\ SetLoading(ContactFinallyLoading, isFirstMessage)
            /\ flows' = flows \ {f}
            /\ history' = [history EXCEPT
                              !.outcome = "contact_ok",
                              !.rendered =
                                  [id |-> f.element, fragments |-> f.produced]]

\* ------------------------------------- handleChatSubmit, continue dialogue
\* The thinking delay of line 284 elapsed: line 286 issues the request.
ThinkingTimer(f) ==
    /\ f \in flows /\ f.pc = "thinking"
    /\ UNCHANGED probe
    /\ requests' = [requests EXCEPT !.sendMessageStream = @ + 1]
    /\ flows' = (flows \ {f}) \cup { [f EXCEPT !.pc = "send_wait"] }
    /\ UNCHANGED << textVars, portraitVars, history >>

TurnCatchTwice(hist, id) ==
    AddMessageToUI(AddMessageToUI(hist, id, ChatFailText, "npc", FALSE),
                   id + 1, ChatFailText, "npc", FALSE)

\* lines 306-308: the catch block
TurnCatch(hist, id) == AddMessageToUI(hist, id, ChatFailText, "npc", FALSE)

TurnFinallyStaysBusy == TRUE

\* line 310: the argument of setLoading in the finally block
TurnFinallyLoading == FALSE

\* The catch and finally blocks of a chat turn, lines 306-311.
TurnFails(f) ==
    /\ chatHistory' = TurnCatch(chatHistory, nextId)
    /\ nextId' = nextId + 1
    /\ SetLoading(TurnFinallyLoading, isFirstMessage)
    /\ flows' = flows \ {f}
    /\ history' = [history EXCEPT !.failedFlows = @ + 1,
                                  !.outcome = "turn_failed"]

\* sendMessageStream settled: it rejected, or lines 288-292 up to the first
\* await of the stream.
SendResolve(f, ok) ==
    /\ f \in flows /\ f.pc = "send_wait"
    /\ UNCHANGED probe
    /\ UNCHANGED << isFirstMessage, chat, npcProfile, signalOn, portraitVars,
                    requests >>
    /\ IF ok
       THEN /\ chatHistory' = AddMessageToUI(chatHistory, nextId, <<>>, "npc", TRUE)
            /\ nextId' = nextId + 1
            /\ flows' = (flows \ {f}) \cup
                   { [f EXCEPT !.pc = "stream_wait", !.element = nextId,
                               !.stream = ReplyText] }
            /\ UNCHANGED << isGenerating, inputDisabled, inputPlaceholder,
                            history >>
       ELSE TurnFails(f)

\* One step of the for-await loop of line 292 settled with r: a chunk (typed
\* from its first character, lines 293-299), the end of the stream (lines
\* 303-304 and the finally block) or an exception.
StreamNext(f, r) ==
    LET text == SubSeq(f.stream, 1, r.len)
    IN
    /\ f \in flows /\ f.pc = "stream_wait"
    /\ UNCHANGED probe
    /\ r.kind = "chunk" => (Len(f.produced) < MaxChunks /\ r.len <= Len(f.stream))
    /\ UNCHANGED << isFirstMessage, chat, npcProfile, signalOn, portraitVars,
                    requests >>
    /\ IF r.kind = "throw"
       THEN TurnFails(f)
       ELSE IF r.kind = "done"
       THEN /\ chatHistory' = FinishStreaming(chatHistory, f.element)
            /\ SetLoading(TurnFinallyLoading, isFirstMessage)
            /\ flows' = flows \ {f}
            /\ history' = [history EXCEPT
                              !.outcome = "turn_ok",
                              !.rendered =
                                  [id |-> f.element, fragments |-> f.produced]]
            /\ UNCHANGED nextId
       ELSE /\ chatHistory' =
                   IF text = <<>> THEN chatHistory
                   ELSE TypeChar(chatHistory, f.element, Head(text))
            /\ flows' = (flows \ {f}) \cup
                   { [f EXCEPT !.pc = IF text = <<>> THEN "stream_wait"
                                                      ELSE "chunk_typing",
                               !.remaining = IF text = <<>> THEN <<>>
                                                            ELSE Tail(text),
                               !.produced = Append(@, text),
                               !.stream = SubSeq(@, r.len + 1, Len(@))] }
            /\ UNCHANGED << nextId, isGenerating, inputDisabled,
                            inputPlaceholder, history >>

\* The typing delay of line 299 elapsed: the next character of the chunk, or
\* back to the await of the stream when the chunk is exhausted.
ChunkTypingTimer(f) ==
    /\ f \in flows /\ f.pc = "chunk_typing"
    /\ UNCHANGED probe
    /\ UNCHANGED << nextId, isFirstMessage, chat, npcProfile, isGenerating,
                    inputDisabled, inputPlaceholder, signalOn, portraitVars,
                    requests, history >>
    /\ IF f.remaining # <<>>
       THEN /\ chatHistory' = TypeChar(chatHistory, f.element, Head(f.remaining))
            /\ flows' = (flows \ {f}) \cup
                   { [f EXCEPT !.remaining = Tail(f.remaining)] }
       ELSE /\ flows' = (flows \ {f}) \cup { [f EXCEPT !.pc = "stream_wait"] }
            /\ UNCHANGED chatHistory

\* -------------------------------------------------------- generateNpcImage
ImageFinallyClearsBusy(busy) == FALSE

\* lines 244-255 assign nothing to isGenerating
GeneratingAfterImage(busy) == busy

\* generateImages settled with res: lines 244-247, or the catch block of
\* lines 249-252, and then the finally block of line 254.
ImageResolve(res) ==
    /\ pendingImages > 0
    /\ pendingImages' = pendingImages - 1
    /\ UNCHANGED probe
    /\ IF res = "image"
       THEN /\ imageHidden' = FALSE
            /\ UNCHANGED << placeholderHidden, portraitCaption >>
       ELSE /\ placeholderHidden' = FALSE
            /\ portraitCaption' = "failed"
            /\ UNCHANGED imageHidden
    /\ loaderHidden' = TRUE
    /\ isGenerating' = GeneratingAfterImage(isGenerating)
    /\ UNCHANGED << chatHistory, nextId, isFirstMessage, chat, npcProfile,
                    inputDisabled, inputPlaceholder, signalOn, flows, requests,
                    history >>

\* ------------------------------------------------------- the specification
Submit == \E raw \in UserInputs : HandleChatSubmit(raw)

ProfileSettles ==
    \E f \in flows : \E resp \in ProfileResponses : \E createThrows \in BOOLEAN :
        ProfileResolve(f, resp, createThrows)

FirstTyping == \E f \in flows : FirstTypingTimer(f)

Thinking == \E f \in flows : ThinkingTimer(f)

SendSettles == \E f \in flows : \E ok \in BOOLEAN : SendResolve(f, ok)

StreamSteps == \E f \in flows : \E r \in StreamResults : StreamNext(f, r)

ChunkTyping == \E f \in flows : ChunkTypingTimer(f)

ImageSettles == \E res \in ImageResults : ImageResolve(res)

\* The steps of the text flows: every await of lines 118-219 and 280-311.
TextFlowStep ==
    \/ ProfileSettles
    \/ FirstTyping
    \/ Thinking
    \/ SendSettles
    \/ StreamSteps
    \/ ChunkTyping

Next ==
    \/ Submit
    \/ ProfileSettles
    \/ FirstTyping
    \/ Thinking
    \/ SendSettles
    \/ StreamSteps
    \/ ChunkTyping
    \/ ImageSettles

Spec == Init /\ [][Next]_vars

\* Every awaited call settles, the reply stream ends and timers fire; the
\* portrait request alone may stay pending for ever.
FairSpec == Spec /\ WF_vars(TextFlowStep)

\* ------------------------------------- the delay functions on their own
DelayInit == SessionInit /\ probe \in DelayInputs

ThinkingTimeComputed ==
    /\ probe.fn = "getThinkingTime" /\ ~probe.done
    /\ probe' = [probe EXCEPT !.done = TRUE,
                              !.result = GetThinkingTime(probe.len, probe.draw1)]
    /\ UNCHANGED << textVars, portraitVars, flows, requests, history >>

TypingDelayComputed ==
    /\ probe.fn = "getTypingDelay" /\ ~probe.done
    /\ probe' = [probe EXCEPT !.done = TRUE,
                              !.result = GetTypingDelay(probe.char, probe.draw1,
                                                        probe.draw2)]
    /\ UNCHANGED << textVars, portraitVars, flows, requests, history >>

DelayNext == ThinkingTimeComputed \/ TypingDelayComputed

DelaySpec == DelayInit /\ [][DelayNext]_vars

\* ------------------------------------------------------------- properties
\* The messages of the transcript that carry one of the two failure texts.
FailureMessages ==
    { i \in DOMAIN chatHistory :
        /\ chatHistory[i].sender = "npc"
        /\ TextOf(chatHistory[i].nodes) \in { ContactFailText, ChatFailText } }

\* C1: a submit event handled while isGenerating is true changes nothing: the
\* transcript, the requests issued, isFirstMessage, chat, npcProfile and the
\* busy flag are as before.
C1_BusyGuard ==
    [][ ( /\ \/ history'.lastSubmit # history.lastSubmit
             \/ history'.accepted # history.accepted
          /\ isGenerating )
        => UNCHANGED << chatHistory, requests, isFirstMessage, chat,
                        npcProfile, isGenerating, flows >> ]_vars

C1_Witness ==
    /\ history.lastSubmit = "busy"
    /\ isGenerating
    /\ \E f \in flows : f.pc = "profile_wait"

\* C2: when generateNpcAndStartChat ends through its catch block, the state
\* is still AWAITING_FIRST_CONTACT (isFirstMessage true) and chat is null.
C2_FailedContactStaysInitial ==
    history.outcome = "contact_failed" => (isFirstMessage /\ chat = 0)

\* C3: never more than one text flow between its start and its finally
\* block, and isGenerating is true exactly while there is one.
C3_OneTextFlow ==
    /\ Cardinality(flows) <= 1
    /\ isGenerating <=> flows # {}

C3_Witness ==
    /\ \E f \in flows : f.pc = "chunk_typing"
    /\ pendingImages > 0
    /\ history.lastSubmit = "busy"

\* C4: isFirstMessage starts true, becomes false only in the step of a contact
\* establishment in which the profile was parsed and the session created, and
\* once false it stays false.
C4_Irreversible ==
    /\ isFirstMessage = TRUE
    /\ [][ /\ ~isFirstMessage => ~isFirstMessage'
           /\ (isFirstMessage /\ ~isFirstMessage') =>
                 /\ \E f \in flows : f.kind = "contact" /\ f.pc = "profile_wait"
                 /\ npcProfile' # <<>>
                 /\ npcProfile'[1].id = requests.generateContent
                 /\ chat' # 0 ]_vars

C4_Witness == ~isFirstMessage /\ history.outcome = "turn_failed"

\* C5 as stated: ai.chats.create is called at most once.
C5_CreateCalledOnce == requests.chatsCreate <= 1

\* C5 as amended: ai.chats.create returns a session at most once, and once
\* chat is non-null it is never reassigned and create is not called again.
C5_SessionCreatedOnce ==
    /\ [](history.sessions <= 1)
    /\ [][ chat # 0 => ( /\ chat' = chat
                         /\ requests'.chatsCreate = requests.chatsCreate ) ]_vars

C5_Witness == requests.chatsCreate = 2 /\ chat # 0 /\ history.sessions = 1

\* C6: every submission accepted in IN_DIALOGUE issues exactly one
\* sendMessageStream call, once its thinking delay has elapsed, on the one
\* session; no generateContent and no generateImages call is issued from a
\* state that is IN_DIALOGUE.
C6_DialogueRouting ==
    /\ [](requests.sendMessageStream
            + Cardinality({ f \in flows : f.pc = "thinking" })
          = history.acceptedDialogue)
    /\ [][ ~isFirstMessage =>
             /\ requests'.generateContent = requests.generateContent
             /\ requests'.generateImages = requests.generateImages
             /\ requests'.chatsCreate = requests.chatsCreate
             /\ chat' = chat ]_vars

C6_Witness ==
    /\ history.acceptedDialogue = 1
    /\ requests.sendMessageStream = 1
    /\ requests.generateContent = 1
    /\ history.outcome = "turn_ok"

\* C7: the transcript holds exactly one failure message for every text flow
\* that failed, and none for a flow that succeeded.
C7_OneFailureMessage == Cardinality(FailureMessages) = history.failedFlows

C7_Witness ==
    /\ history.outcome = "turn_failed"
    /\ \E i \in DOMAIN chatHistory :
          chatHistory[i].streaming /\ TextOf(chatHistory[i].nodes) # <<>>

\* C8: whenever the busy flag is set, the flow reaches a state where it is
\* cleared and the input enabled again.
C8_BusyCleared == isGenerating ~> (~isGenerating /\ ~inputDisabled)

C8_Witness ==
    /\ history.accepted = 2
    /\ history.failedFlows = 1
    /\ ~isGenerating /\ ~inputDisabled /\ flows = {}

\* C9: the step in which a portrait request settles, with any outcome and at
\* any point of the text flow, leaves the transcript, isFirstMessage, chat,
\* npcProfile, the busy flag and the position of the text flow unchanged.
C9_PortraitIsolation ==
    [][ pendingImages' < pendingImages
        => UNCHANGED << chatHistory, isFirstMessage, chat, npcProfile,
                        isGenerating, inputDisabled, flows >> ]_vars

C9_Witness ==
    /\ pendingImages = 0
    /\ portraitCaption = "failed"
    /\ \E f \in flows : f.pc = "first_typing"

\* C10: the text of the message whose streaming render completed last is the
\* concatenation of its fragments in order, without the cursor; it is the
\* text the one-fragment render of first_message produced whenever the two
\* character sequences are the same, whatever the split into fragments.
C10_RenderPreservesReply ==
    history.rendered.id # 0 =>
        \E i \in DOMAIN chatHistory :
            /\ chatHistory[i].id = history.rendered.id
            /\ TextOf(chatHistory[i].nodes) = Concat(history.rendered.fragments)
            /\ ~HasCursor(chatHistory[i])
            /\ \A j \in DOMAIN chatHistory :
                  ( /\ chatHistory[j].firstReply
                    /\ ~chatHistory[j].streaming
                    /\ npcProfile[1].first_message.chars
                          = Concat(history.rendered.fragments) )
                  => TextOf(chatHistory[j].nodes) = TextOf(chatHistory[i].nodes)

C10_Witness ==
    /\ history.rendered.fragments = << <<"a">>, <<"b">>, <<"c">> >>
    /\ history.outcome = "turn_ok"
    /\ npcProfile[1].first_message.chars = <<"a", "b", "c">>
    /\ \E j \in DOMAIN chatHistory :
          chatHistory[j].firstReply /\ ~chatHistory[j].streaming

\* The elements of the portrait region that do not carry the class hidden.
VisiblePortraitStates ==
    (IF placeholderHidden THEN {} ELSE {"placeholder"})
    \cup (IF loaderHidden THEN {} ELSE {"loading"})
    \cup (IF imageHidden THEN {} ELSE {"image"})

\* C11: at most one of the placeholder, the loading indicator and the image
\* of the portrait region is visible.
C11_PortraitExclusive == Cardinality(VisiblePortraitStates) <= 1

\* C12: once npcProfile holds a parsed profile it is never assigned again.
C12_ProfileAssignedOnce == [][ npcProfile # <<>> => npcProfile' = npcProfile ]_vars

\* C13: getThinkingTime returns a delay in [600, 4000] ms: 600 + 40*L plus a
\* jitter below 500, capped at 4000.
C13_ThinkingTimeRange ==
    (probe.fn = "getThinkingTime" /\ probe.done) =>
        /\ Ms(600) <= probe.result /\ probe.result <= Ms(4000)
        /\ probe.result < Ms(600) + probe.len * Ms(40) + Ms(500)
        /\ probe.result < Ms(4000) => probe.result >= Ms(600) + probe.len * Ms(40)

C13_Witness ==
    /\ probe.fn = "getThinkingTime" /\ probe.done
    /\ probe.len = 85 /\ probe.draw1 = 49
    /\ probe.result = Ms(4000)

\* C14: getTypingDelay is at least 50 ms for every character, in [350, 500)
\* for a comma and in [500, 700) for '.', '?' and '!'.
C14_TypingDelayRange ==
    (probe.fn = "getTypingDelay" /\ probe.done) =>
        /\ probe.result >= Ms(50)
        /\ probe.char = "," =>
              (Ms(350) <= probe.result /\ probe.result < Ms(500))
        /\ probe.char \in {".", "?", "!"} =>
              (Ms(500) <= probe.result /\ probe.result < Ms(700))

C14_Witness ==
    /\ probe.fn = "getTypingDelay" /\ probe.done
    /\ probe.char = "a" /\ probe.draw1 = 0 /\ probe.draw2 = 1
    /\ probe.result = Ms(365)

\* C15: when the busy flag is false no message carries the streaming marker
\* or the cursor.
C15_NoStaleStreaming ==
    ~isGenerating =>
        \A i \in DOMAIN chatHistory :
            ~chatHistory[i].streaming /\ ~HasCursor(chatHistory[i])

\* The element with the given identity.
MessageById(hist, id) == hist[CHOOSE i \in DOMAIN hist : hist[i].id = id]

IsPrefix(s, t) == Len(s) <= Len(t) /\ s = SubSeq(t, 1, Len(s))

\* The flows that are inside a streaming render.
Rendering == { f \in flows : f.pc \in {"first_typing", "stream_wait", "chunk_typing"} }

\* C16: during a streaming render the text of the message is a prefix of the
\* fragments produced so far (what is missing is the rest of the current
\* fragment), the cursor is its last node, the text grows by one character
\* per step, and every insertion leaves the flow waiting for the typing delay
\* of the character inserted.
C16_CharacterByCharacter ==
    /\ [](\A f \in Rendering :
             LET m == MessageById(chatHistory, f.element)
             IN  /\ IsPrefix(TextOf(m.nodes), Concat(f.produced))
                 /\ TextOf(m.nodes) \o f.remaining = Concat(f.produced)
                 /\ m.streaming
                 /\ m.nodes # <<>> /\ m.nodes[Len(m.nodes)].tag = "cursor")
    /\ [][ \A i \in DOMAIN chatHistory' :
             LET m2 == chatHistory'[i]
                 before == IF HasParent(chatHistory, m2.id)
                           THEN Len(TextOf(MessageById(chatHistory, m2.id).nodes))
                           ELSE 0
                 grown == Len(TextOf(m2.nodes)) - before
             IN  m2.streaming =>
                    /\ grown \in {0, 1}
                    /\ grown = 1 =>
                          \E f \in flows' :
                              /\ f.element = m2.id
                              /\ f.pc \in {"first_typing", "chunk_typing"} ]_vars

C16_Witness ==
    \E f \in flows :
        /\ f.pc = "chunk_typing"
        /\ f.produced = << <<"a">>, <<"b", "c">> >>
        /\ f.remaining = << "c" >>
        /\ TextOf(MessageById(chatHistory, f.element).nodes) = << "a", "b" >>

\* The "awaiting response" placeholders in the transcript.
StatusMessages ==
    { i \in DOMAIN chatHistory :
        chatHistory[i].sender = "npc" /\ TextOf(chatHistory[i].nodes) = StatusText }

\* C17: at most one placeholder is in the transcript, only while a contact
\* establishment awaits the profile, and none when the busy flag is false.
C17_NoPlaceholderSurvives ==
    /\ Cardinality(StatusMessages) <= 1
    /\ \A i \in StatusMessages :
          \E f \in flows :
              /\ f.kind = "contact" /\ f.pc = "profile_wait"
              /\ f.statusMessage = chatHistory[i].id
    /\ ~isGenerating => StatusMessages = {}

C17_Witness ==
    /\ history.failedFlows = 2
    /\ isFirstMessage
    /\ ~isGenerating
    /\ StatusMessages = {}

\* C18: in a chat turn the user's message is the last of the transcript and
\* the busy flag is set while the thinking delay runs, sendMessageStream is
\* issued only by the step that ends the thinking delay, and no NPC message
\* is appended before the request was issued and returned.
C18_TurnOrder ==
    /\ [](\A f \in flows :
             f.kind = "turn" =>
                /\ isGenerating
                /\ f.pc = "thinking" =>
                      requests.sendMessageStream < history.acceptedDialogue
                /\ f.pc # "thinking" =>
                      requests.sendMessageStream = history.acceptedDialogue
                /\ f.pc \in {"thinking", "send_wait"} =>
                      /\ f.element = 0
                      /\ chatHistory # <<>>
                      /\ chatHistory[Len(chatHistory)].sender = "user"
                      /\ TextOf(chatHistory[Len(chatHistory)].nodes) = f.userInput)
    /\ [][ requests'.sendMessageStream # requests.sendMessageStream =>
              \E f \in flows : f.kind = "turn" /\ f.pc = "thinking" ]_vars

C18_Witness ==
    \E f \in flows :
        /\ f.pc = "send_wait"
        /\ requests.sendMessageStream = 1
        /\ chatHistory[Len(chatHistory)].sender = "user"

\* The identities of the elements of a transcript, in order.
IdsOf(hist) == [i \in DOMAIN hist |-> hist[i].id]

\* C19: a step removes nothing from the transcript but the placeholder, keeps
\* the remaining messages in their order at the front of the new transcript,
\* adds new ones behind them, and changes no message that is not streaming.
C19_AppendOnly ==
    [][ LET kept == SelectSeq(chatHistory,
                              LAMBDA m : HasParent(chatHistory', m.id))
        IN  /\ IsPrefix(IdsOf(kept), IdsOf(chatHistory'))
            /\ \A i \in DOMAIN chatHistory :
                  \/ HasParent(chatHistory', chatHistory[i].id)
                  \/ i \in StatusMessages
            /\ \A i \in DOMAIN chatHistory :
                  (HasParent(chatHistory', chatHistory[i].id)
                      /\ ~chatHistory[i].streaming)
                  => MessageById(chatHistory', chatHistory[i].id) = chatHistory[i]
      ]_vars

C19_Witness ==
    /\ Len(chatHistory) = 4
    /\ StatusMessages = {}
    /\ chatHistory[1].sender = "user"
    /\ chatHistory[3].sender = "user"
    /\ history.outcome = "turn_ok"

\* C20: IN_DIALOGUE implies a ChatSession, the dispatch of handleChatSubmit
\* never falls through both branches, and once an accepted submission has
\* been handled the transcript ends with an NPC reply or failure message.
C20_DispatchTotal ==
    /\ ~isFirstMessage => chat # 0
    /\ history.lastSubmit # "dropped"
    /\ history.accepted > 0 =>
          \/ flows # {}
          \/ chatHistory[Len(chatHistory)].sender = "npc"

C20_Witness ==
    /\ ~isFirstMessage /\ chat # 0
    /\ history.lastSubmit = "dialogue"
    /\ history.outcome = "turn_failed"

====
